---- MODULE Spec2Model ----
(***************************************************************************)
(* A model of kenken.py: the random puzzle generator (generate), the       *)
(* structural validator (validate), the per-cage domain builder            *)
(* (gdomains), the conflict graph builder (gneighbors), the pairwise       *)
(* constraint (Kenken.constraint / conflicting) and the renderer           *)
(* (Kenken.display).                                                       *)
(*                                                                         *)
(* A cell is a pair <<x, y>> (x = column, y = row).  A clique is a record  *)
(* [members, operator, target]; members is a sequence of cells (a Python   *)
(* tuple), operator a sequence of one-character strings (a Python str), so *)
(* that the substring test of validate can be computed.                    *)
(***************************************************************************)
EXTENDS Integers, Sequences, FiniteSets, TLC

\* ------------------------------------------------------------------------
\* Bounds of the model
\* ------------------------------------------------------------------------
\* largest board size handed to generate
MaxGenSize == 2
\* largest board size of the puzzles handed to Kenken(size, cliques)
MaxSize == 2
\* most members of the cage whose operator and target vary
MaxMembers == 2
\* the targets of that cage range over -1..MaxTarget
MaxTarget == 3
\* validate on arbitrary descriptions: size, number of cages, members per cage
MaxValSize == 2
MaxValCages == 2
MaxValMembers == 2
\* gneighbors: size and members of the varying cage
MaxGraphSize == 3
MaxGraphMembers == 2
\* display: size and members of the varying cage
MaxDisplaySize == 2
MaxDisplayMembers == 3

\* ------------------------------------------------------------------------
\* Generic helpers on sequences
\* ------------------------------------------------------------------------
Range(s) == {s[k] : k \in 1..Len(s)}

\* the bijections of 1..n, each as a sequence
Perms(n) == {p \in [1..n -> 1..n] : \A a, b \in 1..n : p[a] = p[b] => a = b}

Max(a, b) == IF a > b THEN a ELSE b

\* longest tuple whose permutations are needed
MaxArity == Max(4, Max(Max(MaxMembers, MaxGraphMembers), Max(MaxValMembers + 1, MaxDisplayMembers)))

PermsOf == [n \in 0..MaxArity |-> Perms(n)]

None == <<>>

\* a slip for list.remove(e): list.pop(), which drops the last element
RemoveLast(s, e) == SubSeq(s, 1, Len(s) - 1)

\* list.remove(e): drop the first occurrence of e
Remove(s, e) ==
    LET k == CHOOSE j \in 1..Len(s) : s[j] = e /\ \A h \in 1..(j - 1) : s[h] # e
    IN  SubSeq(s, 1, k - 1) \o SubSeq(s, k + 1, Len(s))

\* ------------------------------------------------------------------------
\* operation / reduce: results are exact rationals [num, den]; err marks
\* the TypeError raised by calling None or folding an empty sequence
\* ------------------------------------------------------------------------
Rat(n) == [err |-> FALSE, num |-> n, den |-> 1]

TypeError == [err |-> TRUE, num |-> 0, den |-> 1]

operation(operator) ==
    IF operator = <<"+">> THEN "add"
    ELSE IF operator = <<"-">> THEN "sub"
    ELSE IF operator = <<"*">> THEN "mul"
    ELSE IF operator = <<"/">> THEN "div"
    ELSE "None"

\* the lambda returned by operation, applied to an accumulated rational a
\* and the next element b (always an integer >= 1 here, so a / b is defined)
Apply(f, a, b) ==
    IF f = "add" THEN [err |-> FALSE, num |-> a.num + b * a.den, den |-> a.den]
    ELSE IF f = "sub" THEN [err |-> FALSE, num |-> a.num - b * a.den, den |-> a.den]
    ELSE IF f = "mul" THEN [err |-> FALSE, num |-> a.num * b, den |-> a.den]
    ELSE [err |-> FALSE, num |-> a.num, den |-> a.den * b]

RECURSIVE FoldFrom(_, _, _, _)
FoldFrom(f, p, k, acc) ==
    IF k > Len(p) THEN acc ELSE FoldFrom(f, p, k + 1, Apply(f, acc, p[k]))

\* functools.reduce(f, p) without an initial value
reduce(f, p) ==
    IF Len(p) = 0 THEN TypeError
    ELSE IF Len(p) = 1 THEN Rat(p[1])
    ELSE IF f = "None" THEN TypeError
    ELSE FoldFrom(f, p, 2, Rat(p[1]))

\* int(x): truncation toward zero
Int_(q) ==
    IF q.num >= 0 THEN q.num \div q.den ELSE -((-q.num) \div q.den)

\* ------------------------------------------------------------------------
\* adjacent
\* ------------------------------------------------------------------------
Abs(n) == IF n < 0 THEN -n ELSE n

\* a slip for adjacent: the test 'dy == 0' of the second case left out
adjacentAnyRow(xy1, xy2) ==
    LET dx == xy1[1] - xy2[1]
        dy == xy1[2] - xy2[2]
    IN  (dx = 0 /\ Abs(dy) = 1) \/ Abs(dx) = 1

adjacent(xy1, xy2) ==
    LET dx == xy1[1] - xy2[1]
        dy == xy1[2] - xy2[2]
    IN  (dx = 0 /\ Abs(dy) = 1) \/ (dy = 0 /\ Abs(dx) = 1)

\* ------------------------------------------------------------------------
\* State
\* ------------------------------------------------------------------------
VARIABLES
    pc,        \* position in the program
    size,      \* the board size N
    rows,      \* generate: 'board' while it is a list of rows (lines 88-97)
    board,     \* generate: 'board' once it is the dict cell -> value (line 99)
    loop,      \* generate: counters of the shuffle and column-swap loops
    uncaged,   \* generate: the list of cells not yet in a clique
    clique,    \* generate: cliques[-1] while it is still a list of cells
    csize,     \* generate: the drawn clique size
    left,      \* generate: iterations left of 'for _ in range(csize - 1)'
    cell,      \* generate: the cell added last (<<>> models None)
    cliques,   \* the list of cliques
    exitcode,  \* validate: the status of exit(), 0 while the process runs
    domains,   \* gdomains: members -> the set of kept tuples
    neighbors, \* gneighbors: members -> the list of neighbouring members
    assignment, \* display: the assignment handed in
    output     \* display: the returned rows of cell strings

gvars == <<rows, board, loop, uncaged, clique, csize, left, cell>>

mvars == <<exitcode, domains, neighbors, assignment, output>>

vars == <<pc, size, cliques, gvars, mvars>>

\* ------------------------------------------------------------------------
\* generate
\* ------------------------------------------------------------------------
\* line 88: board[j][i] = ((i + j) % size) + 1, 0-based i, j
InitialRows(n) == [j \in 1..n |-> [i \in 1..n |-> (((i - 1) + (j - 1)) % n) + 1]]

InitGen ==
    /\ size \in 1..MaxGenSize
    /\ rows = InitialRows(size)
    /\ pc = "shuffle"
    /\ loop = <<1, 1>>
    /\ board = <<>>
    /\ uncaged = <<>>
    /\ clique = <<>>
    /\ csize = 0
    /\ left = 0
    /\ cell = None
    /\ cliques = <<>>
    /\ exitcode = 0
    /\ domains = <<>>
    /\ neighbors = <<>>
    /\ assignment = None
    /\ output = <<>>

\* lines 90-91: one iteration of 'for _ in range(size): shuffle(board)'
Shuffle ==
    /\ pc = "shuffle"
    /\ \E p \in Perms(size) : rows' = [r \in 1..size |-> rows[p[r]]]
    /\ IF loop[1] < size
       THEN /\ loop' = <<loop[1] + 1, 1>>
            /\ pc' = pc
       ELSE /\ loop' = <<1, 1>>
            /\ pc' = "swap"
    /\ UNCHANGED <<size, board, uncaged, clique, csize, left, cell, cliques, mvars>>

\* lines 93-97: one iteration (c1, c2) of the column-swap loops
SwapColumns(b, c1, c2) ==
    [r \in 1..Len(b) |-> [c \in 1..Len(b) |->
        IF c = c1 THEN b[r][c2] ELSE IF c = c2 THEN b[r][c1] ELSE b[r][c]]]

ColumnSwap ==
    /\ pc = "swap"
    /\ \E flip \in BOOLEAN :
         rows' = IF flip THEN SwapColumns(rows, loop[1], loop[2]) ELSE rows
    /\ IF loop[2] < size
       THEN /\ loop' = <<loop[1], loop[2] + 1>>
            /\ pc' = pc
       ELSE IF loop[1] < size
       THEN /\ loop' = <<loop[1] + 1, 1>>
            /\ pc' = pc
       ELSE /\ loop' = <<1, 1>>
            /\ pc' = "dict"
    /\ UNCHANGED <<size, board, uncaged, clique, csize, left, cell, cliques, mvars>>

\* line 99: the keys of the dict in insertion order, (j + 1, i + 1) for i, for j
BoardKeys(n) == [k \in 1..(n * n) |-> <<((k - 1) % n) + 1, ((k - 1) \div n) + 1>>]

\* line 101: sorted(keys, key = var[1]) is a stable sort on the row
RECURSIVE SortedFrom(_, _, _)
SortedFrom(keys, y, n) ==
    IF y > n THEN <<>>
    ELSE SelectSeq(keys, LAMBDA var : var[2] = y) \o SortedFrom(keys, y + 1, n)

SortedKeys(keys, n) == SortedFrom(keys, 1, n)

\* lines 99-103
MakeDict ==
    /\ pc = "dict"
    /\ board' = [xy \in Range(BoardKeys(size)) |-> rows[xy[2]][xy[1]]]
    /\ uncaged' = SortedKeys(BoardKeys(size), size)
    /\ cliques' = <<>>
    /\ pc' = "carve"
    /\ UNCHANGED <<size, rows, loop, clique, csize, left, cell, mvars>>

\* lines 104-114: start a clique at the first uncaged cell
NewClique ==
    /\ pc = "carve"
    /\ uncaged # <<>>
    /\ \E k \in 1..4 :
         /\ csize' = k
         /\ left' = k - 1
         /\ pc' = IF k - 1 > 0 THEN "grow" ELSE "classify"
    /\ cell' = uncaged[1]
    /\ uncaged' = Remove(uncaged, uncaged[1])
    /\ clique' = <<uncaged[1]>>
    /\ UNCHANGED <<size, rows, board, loop, cliques, mvars>>

\* line 118
Adjs(c, unc) == SelectSeq(unc, LAMBDA other : adjacent(c, other))

\* lines 116-127: one iteration of the growing loop
Grow ==
    /\ pc = "grow"
    /\ LET adjs == Adjs(cell, uncaged)
       IN  IF adjs = <<>>
           THEN /\ cell' = None
                /\ pc' = "classify"
                /\ UNCHANGED <<uncaged, clique, left>>
           ELSE \E k \in 1..Len(adjs) :
                  /\ cell' = adjs[k]
                  /\ uncaged' = Remove(uncaged, adjs[k])
                  /\ clique' = Append(clique, adjs[k])
                  /\ left' = left - 1
                  /\ pc' = IF left - 1 > 0 THEN "grow" ELSE "classify"
    /\ UNCHANGED <<size, rows, board, loop, csize, cliques, mvars>>

\* a slip for lines 134-141: division chosen when either value divides the other
GenOperatorsEitherWay(b, cl) ==
    IF Len(cl) = 2
    THEN IF b[cl[1]] % b[cl[2]] = 0 \/ b[cl[2]] % b[cl[1]] = 0 THEN {<<"/">>} ELSE {<<"-">>}
    ELSE {<<"+">>, <<"*">>}

\* lines 134-141: the operators generate may give a clique of the given members
GenOperators(b, cl) ==
    IF Len(cl) = 2
    THEN IF b[cl[1]] % b[cl[2]] = 0 THEN {<<"/">>} ELSE {<<"-">>}
    ELSE {<<"+">>, <<"*">>}

\* line 143
GenTarget(b, cl, operator) ==
    Int_(reduce(operation(operator), [k \in 1..Len(cl) |-> b[cl[k]]]))

\* lines 129-145: turn the list into (members, operator, target)
Classify ==
    /\ pc = "classify"
    /\ csize' = Len(clique)
    /\ IF Len(clique) = 1
       THEN /\ cliques' = Append(cliques,
                 [members |-> clique, operator |-> <<".">>, target |-> board[clique[1]]])
            /\ cell' = clique[1]
       ELSE /\ \E operator \in GenOperators(board, clique) :
                 cliques' = Append(cliques,
                     [members |-> clique, operator |-> operator,
                      target |-> GenTarget(board, clique, operator)])
            /\ cell' = cell
    /\ clique' = <<>>
    /\ pc' = "carve"
    /\ UNCHANGED <<size, rows, board, loop, uncaged, left, mvars>>

\* line 147
Return ==
    /\ pc = "carve"
    /\ uncaged = <<>>
    /\ pc' = "returned"
    /\ csize' = 0
    /\ left' = 0
    /\ cell' = None
    /\ UNCHANGED <<size, rows, board, loop, uncaged, clique, cliques, mvars>>

\* ------------------------------------------------------------------------
\* validate
\* ------------------------------------------------------------------------
\* the cells of the board, and the list of them in row-major order
Cells(n) == (1..n) \X (1..n)

\* Python's 'sub in s' on strings
Contains(s, sub) ==
    \E k \in 0..(Len(s) - Len(sub)) : SubSeq(s, k + 1, k + Len(sub)) = sub

\* line 170: the string the operator is looked up in
LegalOperators == <<"+", "-", "*", "/", ".">>

\* line 160
outOfBounds(xy, n) == xy[1] < 1 \/ xy[1] > n \/ xy[2] < 1 \/ xy[2] > n

\* lines 162-192: the exit status of validate (0: it returns), from clique i on
RECURSIVE validateFrom(_, _, _, _)
validateFrom(n, cls, i, mentioned) ==
    IF i > Len(cls)
    THEN IF Cells(n) \ mentioned # {} THEN 4 ELSE 0
    ELSE LET members == Range(cls[i].members)
         IN  IF ~Contains(LegalOperators, cls[i].operator) THEN 1
             ELSE IF \E xy \in members : outOfBounds(xy, n) THEN 2
             ELSE IF mentioned \cap members # {} THEN 3
             ELSE validateFrom(n, cls, i + 1, mentioned \cup members)

validate(n, cls) == validateFrom(n, cls, 1, {})

\* line 166: tuple(set(members)) keeps each member once, in the iteration
\* order of a set, which the language leaves open: any order of the members
SetTuples(members) ==
    LET S == Range(members)
    IN  {t \in [1..Cardinality(S) -> S] : Range(t) = S}

\* the lists validate may leave in 'cliques' when it returns
RECURSIVE Normalized(_)
Normalized(cls) ==
    IF cls = <<>> THEN {<<>>}
    ELSE {<<[members |-> t, operator |-> cls[1].operator, target |-> cls[1].target]>> \o rest :
              t \in SetTuples(cls[1].members), rest \in Normalized(Tail(cls))}

\* Kenken.__init__, line 305: validate(size, cliques)
Validate ==
    /\ pc = "init"
    /\ LET status == validate(size, cliques)
       IN  IF status # 0
           THEN /\ exitcode' = status
                /\ pc' = "exit"
                /\ cliques' = cliques
           ELSE /\ exitcode' = 0
                /\ pc' = "validated"
                /\ cliques' \in Normalized(cliques)
    /\ UNCHANGED <<size, gvars, domains, neighbors, assignment, output>>

\* ------------------------------------------------------------------------
\* conflicting, satisfies, gdomains
\* ------------------------------------------------------------------------
\* a slip for RowXorCol: the same row only
RowOnly(xy1, xy2) == xy1[2] = xy2[2] /\ xy1[1] # xy2[1]

RowXorCol(xy1, xy2) == (xy1[1] = xy2[1]) # (xy1[2] = xy2[2])

conflicting(A, a, B, b) ==
    \E i \in 1..Len(A) : \E j \in 1..Len(B) :
        RowXorCol(A[i], B[j]) /\ a[i] = b[j]

\* a slip for satisfies: the fold of the values as given, whatever p
unpermuted(values, p) == values

\* itertools.permutations(values): the tuple the permutation p gives
permuted(values, p) == [k \in 1..Len(values) |-> values[p[k]]]

\* the index permutations itertools.permutations runs through
permutations(values) == PermsOf[Len(values)]

\* reduce(operation, p) == target, on the exact value of the fold
\* (the quotients of the left fold a / b / c ... by integers >= 1 are compared
\* with an integer; the float comparison agrees with the exact one for the
\* magnitudes of this model)
EqualsTarget(r, target) == r.num = target * r.den

\* satisfies raises when the fold does: reduce on an empty tuple, or a call
\* of None on a tuple of two or more values
satisfiesRaises(values, f) == reduce(f, values).err

satisfies(values, f, target) ==
    \E p \in permutations(values) : EqualsTarget(reduce(f, permuted(values, p)), target)

\* a slip for line 259: range(size + 1), which starts at 0
productFromZero(n, m) == [1..m -> 0..n]

\* line 259: product(range(1, size + 1), repeat = len(members))
product(n, m) == [1..m -> 1..n]

\* lines 261-263
qualifies(cl, values) ==
    /\ ~conflicting(cl.members, values, cl.members, values)
    /\ satisfies(values, operation(cl.operator), cl.target)

\* the filter raises when some candidate reaches satisfies and satisfies raises
qualifiesRaises(n, cl) ==
    \E values \in product(n, Len(cl.members)) :
        /\ ~conflicting(cl.members, values, cl.members, values)
        /\ satisfiesRaises(values, operation(cl.operator))

gdomainsRaises(n, cls) == \E k \in 1..Len(cls) : qualifiesRaises(n, cls[k])

\* lines 255-267: the dict members -> kept tuples; a later clique with the
\* same members overwrites an earlier one
gdomains(n, cls) ==
    [members \in {cls[k].members : k \in 1..Len(cls)} |->
        LET last == CHOOSE k \in 1..Len(cls) :
                        /\ cls[k].members = members
                        /\ \A h \in (k + 1)..Len(cls) : cls[h].members # members
        IN  {values \in product(n, Len(members)) : qualifies(cls[last], values)}]

\* domains = gdomains(size, cliques): Kenken.__init__, line 309, on the list
\* validate left, and on the list generate returned
Gdomains ==
    /\ pc \in {"validated", "returned"}
    /\ IF gdomainsRaises(size, cliques)
       THEN /\ pc' = "TypeError"
            /\ domains' = domains
       ELSE /\ pc' = "domains"
            /\ domains' = gdomains(size, cliques)
    /\ UNCHANGED <<size, cliques, gvars, exitcode, neighbors, assignment, output>>

\* ------------------------------------------------------------------------
\* gneighbors
\* ------------------------------------------------------------------------
Sentinel(A) == [k \in 1..Len(A) |-> -1]

\* lines 283-288: the pairs (A, B) in loop order, pair number k of n * n
RECURSIVE gneighborsFrom(_, _, _)
gneighborsFrom(cls, k, nb) ==
    LET n == Len(cls)
    IN  IF k > n * n THEN nb
        ELSE LET A == cls[((k - 1) \div n) + 1].members
                 B == cls[((k - 1) % n) + 1].members
             IN  IF /\ A # B
                    /\ B \notin Range(nb[A])
                    /\ conflicting(A, Sentinel(A), B, Sentinel(B))
                 THEN gneighborsFrom(cls, k + 1,
                        [nb EXCEPT ![A] = Append(@, B), ![B] = Append(nb[B], A)])
                 ELSE gneighborsFrom(cls, k + 1, nb)

gneighbors(cls) ==
    gneighborsFrom(cls, 1, [members \in {cls[k].members : k \in 1..Len(cls)} |-> <<>>])

\* Kenken.__init__, lines 311-326
Gneighbors ==
    /\ pc = "domains"
    /\ neighbors' = gneighbors(cliques)
    /\ pc' = "model"
    /\ UNCHANGED <<size, cliques, gvars, exitcode, domains, assignment, output>>

\* Kenken.constraint
constraint(A, a, B, b) == A = B \/ ~conflicting(A, a, B, b)

\* ------------------------------------------------------------------------
\* Kenken.display
\* ------------------------------------------------------------------------
\* a string is a sequence of atoms: a decimal number or one character
Num(n) == [kind |-> "num", num |-> n, chr |-> ""]

Chr(c) == [kind |-> "chr", num |-> 0, chr |-> c]

Chars(operator) == [k \in 1..Len(operator) |-> Chr(operator[k])]

Spaces(k) == [j \in 1..k |-> Chr(" ")]

\* len(str(n)) for the numbers of this model
StrLen(n) ==
    IF n < 0 THEN 1 + (IF -n < 10 THEN 1 ELSE 2) ELSE IF n < 10 THEN 1 ELSE 2

\* the length of a string of atoms
RECURSIVE AtomsLen(_)
AtomsLen(w) ==
    IF w = <<>> THEN 0
    ELSE (IF w[1].kind = "num" THEN StrLen(w[1].num) ELSE 1) + AtomsLen(Tail(w))

\* str.strip(" ")
RECURSIVE LStrip(_)
LStrip(w) == IF w # <<>> /\ w[1] = Chr(" ") THEN LStrip(Tail(w)) ELSE w

RECURSIVE RStrip(_)
RStrip(w) ==
    IF w # <<>> /\ w[Len(w)] = Chr(" ") THEN RStrip(SubSeq(w, 1, Len(w) - 1)) ELSE w

Strip(w) == RStrip(LStrip(w))

\* lines 321-326: self.padding
RECURSIVE paddingOf(_)
paddingOf(cls) ==
    IF cls = <<>> THEN 0 ELSE Max(StrLen(cls[Len(cls)].target), paddingOf(SubSeq(cls, 1, Len(cls) - 1)))

\* lines 359, 373: padding(" ", offset) and fit(word); a negative count gives ""
fit(word, pad) ==
    Spaces(Max(0, pad + 2 - AtomsLen(word))) \o word \o Spaces(Max(0, pad + 2))

NoValue == 0

\* lines 343-355: atomic, cell -> value (NoValue models None; both are falsy)
atomicOf(cls, asg) ==
    [xy \in UNION {Range(cls[k].members) : k \in 1..Len(cls)} |->
        LET k == CHOOSE h \in 1..Len(cls) :
                     /\ xy \in Range(cls[h].members)
                     /\ \A g \in (h + 1)..Len(cls) : xy \notin Range(cls[g].members)
            members == cls[k].members
        IN  IF DOMAIN asg # {} /\ members \in DOMAIN asg /\ asg[members] # <<>>
            THEN LET i == CHOOSE j \in 1..Len(members) :
                              /\ members[j] = xy
                              /\ \A g \in (j + 1)..Len(members) : members[g] # xy
                 IN  asg[members][i]
            ELSE NoValue]

\* line 357: the cells of atomic sorted by y * size + x
sortKey(xy, n) == xy[2] * n + xy[1]

RECURSIVE sortedCells(_, _)
sortedCells(S, n) ==
    IF S = {} THEN <<>>
    ELSE LET first == CHOOSE xy \in S : \A other \in S : sortKey(xy, n) <= sortKey(other, n)
         IN  <<first>> \o sortedCells(S \ {first}, n)

\* a slip for meta: the test 'var not in mentioned' left out
metaIndexEveryCell(cls, member, mentioned) ==
    LET hits == {k \in 1..Len(cls) : member \in Range(cls[k].members)}
    IN  IF hits = {} THEN 0 ELSE CHOOSE k \in hits : \A h \in hits : k <= h

\* lines 365-371: the index of the clique meta(member) finds, 0 when none
metaIndex(cls, member, mentioned) ==
    LET hits == {k \in 1..Len(cls) :
                    member \in Range(cls[k].members) /\ cls[k].members \notin mentioned}
    IN  IF hits = {} THEN 0 ELSE CHOOSE k \in hits : \A h \in hits : k <= h

\* line 369
metaString(cl) ==
    <<Num(cl.target), Chr(" ")>> \o
        (IF cl.operator # <<".">> THEN Chars(cl.operator) ELSE <<Chr(" ")>>)

\* lines 394-402: the string of one cell
cellString(word, value, pad) ==
    LET c == Strip(fit(word, pad))
    IN  IF value # NoValue
        THEN IF c # <<>>
             THEN <<Chr("(")>> \o c \o <<Chr(")")>> \o Spaces(5) \o Strip(fit(<<Num(value)>>, pad))
             ELSE Strip(fit(<<Num(value)>>, pad))
        ELSE c

\* lines 412-413: the cells in sorted order, row after row; the result maps
\* each cell to its string (output[y - 1][position in the row])
RECURSIVE showFrom(_, _, _, _, _, _)
showFrom(cls, atomic, cells, k, mentioned, pad) ==
    IF k > Len(cells) THEN <<>>
    ELSE LET m == metaIndex(cls, cells[k], mentioned)
             word == IF m = 0 THEN <<>> ELSE metaString(cls[m])
             seen == IF m = 0 THEN mentioned ELSE mentioned \cup {cls[m].members}
         IN  <<cellString(word, atomic[cells[k]], pad)>> \o
                 showFrom(cls, atomic, cells, k + 1, seen, pad)

\* lines 412-413: show is called for the rows 1..size in turn, each row being
\* the cells of the sorted list with that y
RECURSIVE rowsUpTo(_, _)
rowsUpTo(cells, i) ==
    IF i = 0 THEN <<>>
    ELSE rowsUpTo(cells, i - 1) \o SelectSeq(cells, LAMBDA xy : xy[2] = i)

display(n, cls, asg) ==
    LET atomic == atomicOf(cls, asg)
        cells == sortedCells(DOMAIN atomic, n)
        order == rowsUpTo(cells, n)
        strings == showFrom(cls, atomic, order, 1, {}, paddingOf(cls))
    IN  [i \in 1..n |->
            [j \in 1..(Len(rowsUpTo(cells, i)) - Len(rowsUpTo(cells, i - 1))) |->
                strings[Len(rowsUpTo(cells, i - 1)) + j]]]

\* the assignments handed to display: the cages of a set K get a tuple of
\* their domain each
RECURSIVE AssignmentsOver(_, _)
AssignmentsOver(K, dom) ==
    IF K = {} THEN {<<>>}
    ELSE LET key == CHOOSE m \in K : TRUE
         IN  {(key :> t) @@ rest : t \in dom[key], rest \in AssignmentsOver(K \ {key}, dom)}

\* the sets of assigned cages tried: none, all, one, all but one
AssignedSets(dom) ==
    LET full == {m \in DOMAIN dom : dom[m] # {}}
    IN  {{}, full} \cup {{m} : m \in full} \cup {full \ {m} : m \in full}

Assignments(dom) == UNION {AssignmentsOver(K, dom) : K \in AssignedSets(dom)}

\* solve, line 526: output = ken.display(assignment)
Display ==
    /\ pc = "model"
    /\ \E asg \in Assignments(domains) :
         /\ assignment' = asg
         /\ output' = display(size, cliques, asg)
    /\ pc' = "displayed"
    /\ UNCHANGED <<size, cliques, gvars, exitcode, domains, neighbors>>

\* ------------------------------------------------------------------------
\* The puzzles handed to Kenken(size, cliques)
\* ------------------------------------------------------------------------
\* the cells of S in row-major order
CellSeq(S, n) == SelectSeq(BoardKeys(n), LAMBDA xy : xy \in S)

Operators == {<<"+">>, <<"-">>, <<"*">>, <<"/">>, <<".">>}

Targets == -1..MaxTarget

\* one cage of cells S with the given operator and target; every other cell
\* of the board is a cage of its own with operator '.' and target 1
Puzzle(n, S, operator, target) ==
    LET others == CellSeq(Cells(n) \ S, n)
    IN  <<[members |-> CellSeq(S, n), operator |-> operator, target |-> target]>> \o
        [k \in 1..Len(others) |-> [members |-> <<others[k]>>, operator |-> <<".">>, target |-> 1]]

Puzzles(n, maxMembers, operators, targets) ==
    {Puzzle(n, S, operator, target) :
        S \in {T \in SUBSET Cells(n) : T # {} /\ Cardinality(T) <= maxMembers},
        operator \in operators, target \in targets}

Idle ==
    /\ rows = <<>>
    /\ board = <<>>
    /\ loop = <<1, 1>>
    /\ uncaged = <<>>
    /\ clique = <<>>
    /\ csize = 0
    /\ left = 0
    /\ cell = None
    /\ exitcode = 0
    /\ domains = <<>>
    /\ neighbors = <<>>
    /\ assignment = None
    /\ output = <<>>

\* the worked example of the documentation: size 3, cage {(1,1), (1,2)}, '-', 1
ExamplePuzzle == Puzzle(3, {<<1, 1>>, <<1, 2>>}, <<"-">>, 1)

InitModel ==
    /\ \/ /\ size \in 1..MaxSize
          /\ cliques \in Puzzles(size, MaxMembers, Operators, Targets)
       \/ /\ size = 3
          /\ cliques = ExamplePuzzle
    /\ pc = "init"
    /\ Idle

GraphOperators == {<<"+">>, <<".">>}

InitGraph ==
    /\ size \in 1..MaxGraphSize
    /\ cliques \in Puzzles(size, MaxGraphMembers, GraphOperators, {1, 2})
    /\ pc = "init"
    /\ Idle

DisplayOperators == {<<"*">>, <<".">>}

InitDisplay ==
    /\ size \in 1..MaxDisplaySize
    /\ cliques \in Puzzles(size, MaxDisplayMembers, DisplayOperators, {2, 3})
    /\ pc = "init"
    /\ Idle

\* arbitrary descriptions for validate: cells on the board and one cell
\* beyond each edge, operator strings legal and not, a member listed twice
ValCellSeq(n) == BoardKeys(n) \o <<<<0, 1>>, <<n + 1, 1>>, <<1, 0>>, <<1, n + 1>>>>

ValOperators ==
    {<<"+">>, <<"-">>, <<"*">>, <<"/">>, <<".">>, <<"%">>, <<>>, <<"+", "-">>, <<"-", "+">>}

ValMembers(n) ==
    LET all == ValCellSeq(n)
        sets == {T \in SUBSET Range(all) : T # {} /\ Cardinality(T) <= MaxValMembers}
        seqOf(T) == SelectSeq(all, LAMBDA xy : xy \in T)
    IN  {seqOf(T) : T \in sets} \cup {<<xy, xy>> : xy \in Range(all)}

ValCliques(n) ==
    {[members |-> m, operator |-> o, target |-> 1] : m \in ValMembers(n), o \in ValOperators}

InitVal ==
    /\ size \in 1..MaxValSize
    /\ \E len \in 1..MaxValCages : cliques \in [1..len -> ValCliques(size)]
    /\ pc = "init"
    /\ Idle

\* ------------------------------------------------------------------------
\* Specifications
\* ------------------------------------------------------------------------
\* generate, then gdomains on the puzzle it returned
NextGen ==
    Shuffle \/ ColumnSwap \/ MakeDict \/ NewClique \/ Grow \/ Classify \/ Return \/ Gdomains

SpecGen == InitGen /\ [][NextGen]_vars

\* Kenken(size, cliques) on a given puzzle, up to the domains
NextModel == Validate \/ Gdomains

SpecModel == InitModel /\ [][NextModel]_vars

\* Kenken(size, cliques) on a given puzzle, up to the neighbours
NextGraph == Validate \/ Gdomains \/ Gneighbors

SpecGraph == InitGraph /\ [][NextGraph]_vars

\* Kenken(size, cliques), then display
NextDisplay == Validate \/ Gdomains \/ Gneighbors \/ Display

SpecDisplay == InitDisplay /\ [][NextDisplay]_vars

\* validate on an arbitrary description
NextVal == Validate

SpecVal == InitVal /\ [][NextVal]_vars
\* ------------------------------------------------------------------------
\* Properties
\* ------------------------------------------------------------------------
\* the cells of the finished cliques and of the one being grown
Caged == UNION {Range(cliques[k].members) : k \in 1..Len(cliques)} \cup Range(clique)

RECURSIVE SumLen(_)
SumLen(cls) == IF cls = <<>> THEN 0 ELSE Len(cls[1].members) + SumLen(Tail(cls))

Carving == pc \in {"carve", "grow", "classify", "returned", "domains"}

\* C1: while generate carves, the caged cells and the uncaged cells are
\* disjoint and together are all size * size cells, no cell being listed
\* twice; when generate returns, uncaged is empty, so the cages partition
\* the board.
C1_Partition ==
    Carving =>
        /\ Caged \cap Range(uncaged) = {}
        /\ Caged \cup Range(uncaged) = Cells(size)
        /\ SumLen(cliques) + Len(clique) + Len(uncaged) = size * size
        /\ (pc \in {"returned", "domains"} => uncaged = <<>> /\ clique = <<>>)

C1_Witness ==
    /\ pc = "returned"
    /\ size = 2
    /\ Len(cliques) = 2
    /\ Len(cliques[1].members) = 3

\* the Latin-square values of a clique's members, in member order
GridTuple(cl) == [k \in 1..Len(cl.members) |-> board[cl.members[k]]]

\* C2: for a puzzle generate returned, gdomains keeps for each cage the tuple
\* of the generation-time board values of its members, and these tuples of
\* any two cages satisfy Kenken.constraint; gdomains does not raise.
C2_Satisfiable ==
    /\ (pc = "returned" =>
          \A k, h \in 1..Len(cliques) :
              constraint(cliques[k].members, GridTuple(cliques[k]),
                         cliques[h].members, GridTuple(cliques[h])))
    /\ (pc \in {"domains", "TypeError"} =>
          /\ pc = "domains"
          /\ \A k \in 1..Len(cliques) :
                GridTuple(cliques[k]) \in domains[cliques[k].members])

C2_Witness ==
    /\ pc = "domains"
    /\ Len(cliques) >= 2
    /\ \E k \in 1..Len(cliques) : cliques[k].operator = <<"/">>
    /\ \E k \in 1..Len(cliques) : cliques[k].operator = <<"-">> /\ cliques[k].target < 0

\* the arithmetic of a cage, stated without the fold: some ordering of the
\* values folds to the target
RECURSIVE SumOf(_)
SumOf(t) == IF t = <<>> THEN 0 ELSE t[1] + SumOf(Tail(t))

RECURSIVE ProductOf(_)
ProductOf(t) == IF t = <<>> THEN 1 ELSE t[1] * ProductOf(Tail(t))

Without(t, i) == SubSeq(t, 1, i - 1) \o SubSeq(t, i + 1, Len(t))

SomeOrderGives(operator, t, target) ==
    IF Len(t) = 1 THEN t[1] = target
    ELSE IF operator = <<"+">> THEN SumOf(t) = target
    ELSE IF operator = <<"*">> THEN ProductOf(t) = target
    ELSE IF operator = <<"-">> THEN \E i \in 1..Len(t) : t[i] - SumOf(Without(t, i)) = target
    ELSE IF operator = <<"/">> THEN \E i \in 1..Len(t) : t[i] = target * ProductOf(Without(t, i))
    ELSE FALSE

NoClash(members, t) ==
    \A i, j \in 1..Len(members) :
        LET sameColumn == members[i][1] = members[j][1]
            sameRow == members[i][2] = members[j][2]
        IN  ((sameColumn /\ ~sameRow) \/ (sameRow /\ ~sameColumn)) => t[i] # t[j]

\* C3: in the domains gdomains returns, the domain of a cage of m members is
\* exactly the set of tuples of [1..size]^m with no equal values at two
\* members sharing exactly one of row and column, of which some ordering
\* folds with the cage's operator to the target; nothing else is in it.
C3_DomainExact ==
    pc = "domains" =>
        \A k \in 1..Len(cliques) :
            LET cl == cliques[k]
                m == Len(cl.members)
            IN  /\ domains[cl.members] \subseteq [1..m -> 1..size]
                /\ \A t \in [1..m -> 1..size] :
                      t \in domains[cl.members] <=>
                          /\ NoClash(cl.members, t)
                          /\ SomeOrderGives(cl.operator, t, cl.target)

C3_Witness ==
    /\ pc = "domains"
    /\ size = 3
    /\ cliques[1].members = <<<<1, 2>>, <<1, 1>>>>
    /\ cliques[1].operator = <<"-">>
    /\ cliques[1].target = 1
    /\ <<2, 1>> \in domains[cliques[1].members]
    /\ <<3, 2>> \in domains[cliques[1].members]
    /\ <<1, 1>> \notin domains[cliques[1].members]
    /\ <<1, 3>> \notin domains[cliques[1].members]

\* C4: the neighbours gneighbors returns are the geometric relation: B is in
\* the list of A exactly when A and B are different cages with a member
\* each in one row or one column; the relation is symmetric and irreflexive
\* and no list names a cage twice.
SharesLine(A, B) ==
    \E i \in 1..Len(A) : \E j \in 1..Len(B) : A[i][1] = B[j][1] \/ A[i][2] = B[j][2]

C4_Neighbors ==
    pc = "model" =>
        LET keys == {cliques[k].members : k \in 1..Len(cliques)}
        IN  /\ DOMAIN neighbors = keys
            /\ \A A, B \in keys :
                  /\ B \in Range(neighbors[A]) <=> (A # B /\ SharesLine(A, B))
                  /\ B \in Range(neighbors[A]) <=> A \in Range(neighbors[B])
            /\ \A A \in keys :
                  /\ A \notin Range(neighbors[A])
                  /\ Cardinality(Range(neighbors[A])) = Len(neighbors[A])

C4_Witness ==
    /\ pc = "model"
    /\ size = 3
    /\ Len(cliques[1].members) = 2
    /\ \E A, B \in DOMAIN neighbors : A # B /\ B \notin Range(neighbors[A])
    /\ \E A, B \in DOMAIN neighbors : A # B /\ B \in Range(neighbors[A])

FiveSymbols == {<<"+">>, <<"-">>, <<"*">>, <<"/">>, <<".">>}

\* C5: validate lets a cage pass only with one of the five operator symbols:
\* a description it accepts has no other operator, and a first cage with
\* another operator ends it with status 1.
C5_OperatorRule ==
    pc \in {"validated", "exit"} =>
        /\ (cliques[1].operator \notin FiveSymbols => exitcode = 1)
        /\ (exitcode = 0 => \A k \in 1..Len(cliques) : cliques[k].operator \in FiveSymbols)

\* the status C6 describes: the first violation in list order, the operator
\* before the bounds before the cross reference, the coverage last
RECURSIVE FirstViolation(_, _, _, _)
FirstViolation(n, cls, i, earlier) ==
    IF i > Len(cls)
    THEN IF \E xy \in Cells(n) : xy \notin earlier THEN 4 ELSE 0
    ELSE LET members == Range(cls[i].members)
         IN  IF cls[i].operator \notin FiveSymbols THEN 1
             ELSE IF \E xy \in members : ~(xy[1] \in 1..n /\ xy[2] \in 1..n) THEN 2
             ELSE IF \E xy \in members : xy \in earlier THEN 3
             ELSE FirstViolation(n, cls, i + 1, earlier \cup members)

\* C6: validate ends with the status of the first violation (operator 1,
\* bounds 2, cross reference 3, in list order; coverage 4 last) and returns
\* exactly when there is none, the cages then partitioning the board.
C6_FirstViolation ==
    pc \in {"validated", "exit"} =>
        /\ exitcode = FirstViolation(size, cliques, 1, {})
        /\ (pc = "validated") = (exitcode = 0)

\* C7: gdomains raises on no puzzle validate accepted.
C7_NeverRaises == pc # "TypeError"

\* C8 as stated: a cage of one member has the domain {(target,)}, whatever
\* its target.
C8_SingleCellAnyTarget ==
    pc = "domains" =>
        \A k \in 1..Len(cliques) :
            Len(cliques[k].members) = 1 =>
                domains[cliques[k].members] = {<<cliques[k].target>>}

\* C8 amended: a cage of one member has the domain {(target,)} when the
\* target is a value of the board, 1 <= target <= size, whatever its
\* operator, and the empty domain otherwise.
C8_SingleCell ==
    pc = "domains" =>
        \A k \in 1..Len(cliques) :
            Len(cliques[k].members) = 1 =>
                domains[cliques[k].members] =
                    IF cliques[k].target \in 1..size THEN {<<cliques[k].target>>} ELSE {}

C8_Witness ==
    /\ pc = "domains"
    /\ Len(cliques[1].members) = 1
    /\ cliques[1].operator = <<"-">>
    /\ cliques[1].target = size
    /\ domains[cliques[1].members] = {<<size>>}

\* the clique a cell belongs to, its first cell in row-major order, its
\* annotation, and the value the assignment gives the cell
OwnerOf(xy) == CHOOSE k \in 1..Len(cliques) : xy \in Range(cliques[k].members)

FirstCell(cl) ==
    CHOOSE xy \in Range(cl.members) :
        \A other \in Range(cl.members) :
            xy[2] < other[2] \/ (xy[2] = other[2] /\ xy[1] <= other[1])

Annotation(cl) ==
    <<Num(cl.target)>> \o
        (IF cl.operator = <<".">> THEN <<>> ELSE <<Chr(" ")>> \o Chars(cl.operator))

Assigned(cl) == cl.members \in DOMAIN assignment

ValueAt(cl, xy) ==
    assignment[cl.members][CHOOSE i \in 1..Len(cl.members) : cl.members[i] = xy]

\* C9: display gives the annotation of a cage to its row-major-first cell
\* and to no other cell, and a value to the cells of the assigned cages
\* only, the element of the cage's tuple at the cell's index.
C9_Display ==
    pc = "displayed" =>
        /\ Len(output) = size
        /\ \A y \in 1..size :
            /\ Len(output[y]) = size
            /\ \A x \in 1..size :
                LET cl == cliques[OwnerOf(<<x, y>>)]
                    s == output[y][x]
                    note == Annotation(cl)
                IN  IF FirstCell(cl) = <<x, y>>
                    THEN IF Assigned(cl)
                         THEN /\ Len(s) > Len(note) + 2
                              /\ SubSeq(s, 1, Len(note) + 2) = <<Chr("(")>> \o note \o <<Chr(")")>>
                              /\ s[Len(s)] = Num(ValueAt(cl, <<x, y>>))
                              /\ \A j \in (Len(note) + 3)..(Len(s) - 1) : s[j] = Chr(" ")
                         ELSE s = note
                    ELSE IF Assigned(cl)
                         THEN s = <<Num(ValueAt(cl, <<x, y>>))>>
                         ELSE s = <<>>

C9_Witness ==
    /\ pc = "displayed"
    /\ size = 2
    /\ Len(cliques[1].members) = 3
    /\ cliques[1].members[1] # FirstCell(cliques[1])
    /\ Assigned(cliques[1])
    /\ ~Assigned(cliques[2])

RowMajor(xy) == (xy[2] - 1) * size + xy[1]

Touching(a, b) ==
    \/ (a[1] = b[1] /\ (a[2] - b[2] = 1 \/ b[2] - a[2] = 1))
    \/ (a[2] = b[2] /\ (a[1] - b[1] = 1 \/ b[1] - a[1] = 1))

Chain(members) ==
    /\ Len(members) \in 1..4
    /\ \A k \in 2..Len(members) : Touching(members[k - 1], members[k])

\* the cells not yet caged when clique number k was started
LeftAt(k) ==
    UNION {Range(cliques[h].members) : h \in k..Len(cliques)} \cup Range(clique) \cup Range(uncaged)

\* C10: every clique of generate, finished or growing, is a chain of 1 to 4
\* cells, each touching the one added before it; its first cell is the
\* row-major-first of the cells uncaged when it was started; and it stops
\* short of the drawn size only when no uncaged cell touches its last cell.
C10_Chains ==
    Carving =>
        /\ \A k \in 1..Len(cliques) :
              /\ Chain(cliques[k].members)
              /\ \A xy \in LeftAt(k) : RowMajor(cliques[k].members[1]) <= RowMajor(xy)
        /\ (clique # <<>> =>
              /\ Chain(clique)
              /\ \A xy \in Range(clique) \cup Range(uncaged) : RowMajor(clique[1]) <= RowMajor(xy))
        /\ (pc = "classify" /\ Len(clique) < csize =>
              \A xy \in Range(uncaged) : ~Touching(clique[Len(clique)], xy))

C10_Witness ==
    /\ pc = "classify"
    /\ Len(clique) = 2
    /\ csize = 4
    /\ Len(cliques) = 1
====
